---- MODULE Spec2Model ----
(***************************************************************************)
(* Aurum gold-price monitor (src/server.js): the reference-price cache and *)
(* its refresh, the subscription registry, the price conversion, the       *)
(* threshold evaluation and the evaluation cycle with its alert dispatch.  *)
(*                                                                         *)
(* One action is one synchronous segment of a handler on the Node event    *)
(* loop: from the event that starts or resumes it to its next real         *)
(* suspension (an upstream fetch or an SMTP send) or its end.  A resolved  *)
(* await (sendAlertEmail without a transport) only yields to the microtask *)
(* queue, where no timer or request can run, and so does not end a segment.*)
(*                                                                         *)
(* Numbers are exact rationals <<numerator, denominator>>; JavaScript      *)
(* values that reach the program from a request body are records           *)
(* [t, v, s]: the type tag, the numeric value and the text (a sequence of  *)
(* characters, or one chunk for text that is only compared).               *)
(***************************************************************************)
EXTENDS Integers, Sequences, FiniteSets, Bags, TLC

\* ------------------------------------------------------------ bounds

\* evaluateSubscriptions invocations that may be suspended at a send at once
MaxRuns == 1
\* refreshReferencePrices invocations that may be awaiting their fetches at once,
\* where refreshes are what is studied (RefreshEnv)
MaxRefreshes == 2

\* ------------------------------------------------------------ rationals

RECURSIVE GCD(_, _)
GCD(a, b) == IF b = 0 THEN a ELSE GCD(b, a % b)

Rat(n, d) ==
  LET g == GCD(IF n < 0 THEN -n ELSE n, d)
  IN  IF g = 0 THEN <<0, 1>> ELSE <<n \div g, d \div g>>

RatMul(a, b) == Rat(a[1] * b[1], a[2] * b[2])
RatDiv(a, b) == Rat(a[1] * b[2], a[2] * b[1])
RatLt(a, b) == a[1] * b[2] < b[1] * a[2]
RatInt(n) == <<n, 1>>

\* ------------------------------------------------------------ JavaScript values

JsUndefined == [t |-> "undefined", v |-> <<0, 1>>, s |-> <<>>]
JsNull == [t |-> "null", v |-> <<0, 1>>, s |-> <<>>]
JsNaN == [t |-> "NaN", v |-> <<0, 1>>, s |-> <<>>]
JsInfinity == [t |-> "Infinity", v |-> <<0, 1>>, s |-> <<>>]
JsNum(n) == [t |-> "number", v |-> <<n, 1>>, s |-> <<>>]
JsRat(q) == [t |-> "number", v |-> q, s |-> <<>>]
JsBool(b) == [t |-> "boolean", v |-> <<IF b THEN 1 ELSE 0, 1>>, s |-> <<>>]
JsStr(chars) == [t |-> "string", v |-> <<0, 1>>, s |-> chars]

\* value === "text" for a string literal of the source
IsText(x, text) == x.t = "string" /\ x.s = <<text>>

\* !value
Falsy(x) ==
  \/ x.t \in {"undefined", "null", "NaN"}
  \/ x.t = "boolean" /\ x.v[1] = 0
  \/ x.t = "number" /\ x.v[1] = 0
  \/ x.t = "string" /\ x.s = <<>>

Digits == <<"0", "1", "2", "3", "4", "5", "6", "7", "8", "9">>
IsDigit(c) == \E k \in 1..Len(Digits) : Digits[k] = c
DigitValue(c) == (CHOOSE k \in 1..Len(Digits) : Digits[k] = c) - 1
IsSpace(c) == c = " "

RECURSIVE TrimLeft(_)
TrimLeft(s) == IF s # <<>> /\ IsSpace(Head(s)) THEN TrimLeft(Tail(s)) ELSE s

RECURSIVE TrimRight(_)
TrimRight(s) ==
  IF s # <<>> /\ IsSpace(s[Len(s)]) THEN TrimRight(SubSeq(s, 1, Len(s) - 1)) ELSE s

RECURSIVE DecimalValue(_, _)
DecimalValue(s, acc) ==
  IF s = <<>> THEN acc ELSE DecimalValue(Tail(s), acc * 10 + DigitValue(Head(s)))

\* Number(string): white space is trimmed, the empty string is 0, a run of
\* decimal digits is its value, "Infinity" is Infinity, anything else NaN
\* (signs, fractions and exponents are outside the inputs modelled).
StringToNumber(s) ==
  LET body == TrimRight(TrimLeft(s))
  IN  IF body = <<>> THEN JsNum(0)
      ELSE IF \A k \in 1..Len(body) : IsDigit(body[k]) THEN JsNum(DecimalValue(body, 0))
      ELSE IF body = <<"Infinity">> THEN JsInfinity
      ELSE JsNaN

\* Number(value)
ToNumber(x) ==
  CASE x.t = "undefined" -> JsNaN
    [] x.t = "null" -> JsNum(0)
    [] x.t = "boolean" -> JsRat(x.v)
    [] x.t = "string" -> StringToNumber(x.s)
    [] OTHER -> x

\* Number.isFinite(value)
IsFinite(x) == x.t = "number"

\* ------------------------------------------------------------ program constants

\* 31.1035
TROY_OUNCE_IN_GRAMS == <<62207, 2000>>
VALID_PURITY_LEVELS == {RatInt(24), RatInt(22), RatInt(21), RatInt(18)}

Unset == "undefined"
Statuses == {"below_range", "within_range", "above_range"}

\* ------------------------------------------------------------ pure functions

\* faulty variant: the purity factor is left out
convertPrice_IgnoresPurity(usdPerOunce, unit, currency, usdToJod, purity) ==
  LET p0 == usdPerOunce
      p1 == IF unit = "gram" THEN RatDiv(p0, TROY_OUNCE_IN_GRAMS) ELSE p0
  IN  IF currency = "JOD" THEN RatMul(p1, usdToJod) ELSE p1

convertPrice(usdPerOunce, unit, currency, usdToJod, purity) ==
  LET p0 == usdPerOunce
      p1 == IF unit = "gram" THEN RatDiv(p0, TROY_OUNCE_IN_GRAMS) ELSE p0
      p2 == IF currency = "JOD" THEN RatMul(p1, usdToJod) ELSE p1
      p3 == IF purity # JsUndefined THEN RatMul(p2, RatDiv(purity.v, RatInt(24))) ELSE p2
  IN  p3

\* faulty variant: the upper threshold is looked at first
evaluateStatus_UpperFirst(currentPrice, lowerThreshold, upperThreshold) ==
  IF RatLt(upperThreshold, currentPrice) THEN "above_range"
  ELSE IF RatLt(currentPrice, lowerThreshold) THEN "below_range"
  ELSE "within_range"

evaluateStatus(currentPrice, lowerThreshold, upperThreshold) ==
  IF RatLt(currentPrice, lowerThreshold) THEN "below_range"
  ELSE IF RatLt(upperThreshold, currentPrice) THEN "above_range"
  ELSE "within_range"

\* the next decimal digits of r / d for 0 <= r < d, k of them, appended to acc
RECURSIVE FractionDigits(_, _, _, _)
FractionDigits(r, d, k, acc) ==
  IF k = 0 THEN <<acc, r>>
  ELSE FractionDigits((r * 10) % d, d, k - 1, acc * 10 + (r * 10) \div d)

\* Number(x.toFixed(4)) for x >= 0: the nearest multiple of 1/10000, the larger
\* one of two equally near.  The code rounds the double nearest to x; the two
\* agree unless x lies within the double's error of a midpoint, which no value
\* drawn here does.
toFixed4(x) ==
  LET whole == x[1] \div x[2]
      fd == FractionDigits(x[1] % x[2], x[2], 4, whole)
  IN  Rat(IF 2 * fd[2] >= x[2] THEN fd[1] + 1 ELSE fd[1], 10000)

\* lines 122-132 (the timestamp is left out)
buildPayload(currentPrice, unit, currency, lowerThreshold, upperThreshold, status) ==
  [current_price |-> toFixed4(currentPrice), unit |-> unit, currency |-> currency,
   lower_threshold |-> lowerThreshold, upper_threshold |-> upperThreshold, status |-> status]

\* faulty variant: alerts on every breach evaluation (level-triggered)
shouldAlert_EveryBreach(previousStatus, status) == status # "within_range"

\* faulty variant: alerts only when the range is left, not on a first or opposite breach
shouldAlert_FromWithinOnly(previousStatus, status) ==
  previousStatus = "within_range" /\ status # "within_range"

\* faulty variant: a breach is announced only when the previous status was not a breach
shouldAlert_NotAcross(previousStatus, status) ==
  status # "within_range" /\ previousStatus \notin {"below_range", "above_range"}

\* line 186 of evaluateSubscriptions: the edge-triggered alert condition
shouldAlert(previousStatus, status) ==
  previousStatus # status /\ status # "within_range"

\* lines 187-190: the breach direction named in the alert
breachedText(status) ==
  IF status = "below_range" THEN "below lower threshold" ELSE "above upper threshold"

\* ------------------------------------------------------------ environment

Emails == {"a@x.com", "b@x.com"}
\* what the gold API may answer (USD per troy ounce) and the FX API (USD to JOD)
Prices == {RatInt(1800), RatInt(2000), RatInt(2200)}
Rates == {<<71, 100>>, <<7, 10>>}

Pending == JsUndefined
FetchError == [t |-> "object", v |-> <<0, 1>>, s |-> <<"Error">>]

Body(email, unit, currency, lower, upper, purity) ==
  [email |-> email, unit |-> unit, currency |-> currency,
   lower_threshold |-> lower, upper_threshold |-> upper, purity |-> purity]

DefaultBody(e) ==
  Body(JsStr(<<e>>), JsStr(<<"ounce">>), JsStr(<<"USD">>), JsNum(1900), JsNum(2100), JsNum(24))

\* the same identity with a higher band
HigherBody(e) ==
  Body(JsStr(<<e>>), JsStr(<<"ounce">>), JsStr(<<"USD">>), JsNum(2050), JsNum(2300), JsNum(24))

\* bodies with a missing, empty or non-string email
NoEmailBodies ==
  {Body(e, JsStr(<<"ounce">>), JsStr(<<"USD">>), JsNum(1900), JsNum(2100), JsNum(24)) :
     e \in {JsUndefined, JsNull, JsStr(<<>>), JsNum(7)}}

\* bodies whose thresholds are out of order, missing or not numbers
ThresholdBodies(e) ==
  {Body(JsStr(<<e>>), JsStr(<<"gram">>), JsStr(<<"JOD">>), lu[1], lu[2], JsNum(21)) :
     lu \in {<<JsNum(2100), JsNum(1900)>>, <<JsNum(1900), JsNum(1900)>>,
             <<JsUndefined, JsNum(2100)>>, <<JsNum(1900), JsUndefined>>,
             <<JsStr(<<"a", "b", "c">>), JsNum(2100)>>, <<JsNum(1900), JsInfinity>>,
             <<JsNull, JsNum(2100)>>, <<JsNum(1900), JsNull>>,
             <<JsStr(<<>>), JsNum(2100)>>, <<JsBool(TRUE), JsNum(2100)>>}}

\* bodies whose optional fields need normalising, with thresholds sent as text
LooseBodies(e) ==
  {Body(JsStr(<<e>>), JsStr(<<"gram">>), JsStr(<<"JOD">>),
        JsStr(<<"3", "8">>), JsStr(<<" ", "4", "2">>), JsStr(<<"2", "1">>)),
   Body(JsStr(<<e>>), JsStr(<<"kg">>), JsStr(<<"EUR">>), JsNum(1900), JsNum(2100), JsNum(20)),
   Body(JsStr(<<e>>), JsUndefined, JsUndefined, JsNum(1900), JsNum(2100), JsUndefined)}

\* What the world outside does in one specification: the bodies clients post,
\* the answers of the two upstream APIs, how many refreshes may overlap, and
\* whether the trajectory history of evaluations is kept.

\* The evaluation engine: two subscribers, every price, cycles that overlap.
\* Refreshes do not overlap here: the cache changes only in the one step that
\* ends a refresh, so overlapping refreshes show the cycles no sequence of
\* caches that refreshes in turn do not show them.
EngineEnv ==
  [bodies |-> {DefaultBody(e) : e \in Emails},
   prices |-> Prices,
   rates |-> {<<71, 100>>},
   refreshes |-> 1,
   track |-> FALSE, audit |-> FALSE]

\* One subscriber whose evaluations are followed along Pattern.
TrajectoryEnv ==
  [bodies |-> {DefaultBody("a@x.com")},
   prices |-> Prices,
   rates |-> {<<71, 100>>},
   refreshes |-> 1,
   track |-> TRUE, audit |-> FALSE]

\* The cache: overlapping refreshes, two prices and two rates.
RefreshEnv ==
  [bodies |-> {DefaultBody("a@x.com")},
   prices |-> {RatInt(2000), RatInt(2200)},
   rates |-> Rates,
   refreshes |-> MaxRefreshes,
   track |-> FALSE, audit |-> FALSE]

\* Two subscribers and two prices; every suspended cycle carries what its
\* registration still owes and whether its entry has been replaced.
AuditEnv ==
  [bodies |-> {DefaultBody(e) : e \in Emails},
   prices |-> {RatInt(2000), RatInt(2200)},
   rates |-> {<<71, 100>>},
   refreshes |-> 1,
   track |-> FALSE, audit |-> TRUE]

\* The cache under overlapping refreshes, every refresh in flight carrying
\* its place in the order of starts.
OverlapEnv ==
  [bodies |-> {DefaultBody("a@x.com")},
   prices |-> {RatInt(2000), RatInt(2200)},
   rates |-> {<<71, 100>>},
   refreshes |-> MaxRefreshes,
   track |-> FALSE, audit |-> TRUE]

\* Re-registration and swings between the breaches: one subscriber who
\* registers with either band, every price.
HistoryEnv ==
  [bodies |-> {DefaultBody("a@x.com"), HigherBody("a@x.com")},
   prices |-> Prices,
   rates |-> {<<71, 100>>},
   refreshes |-> 1,
   track |-> FALSE, audit |-> TRUE]

\* Registration: well-formed and malformed bodies.
MonitorEnv ==
  [bodies |-> {DefaultBody("a@x.com")} \cup NoEmailBodies
              \cup ThresholdBodies("a@x.com") \cup LooseBodies("a@x.com"),
   prices |-> {RatInt(2000), RatInt(2200)},
   rates |-> {<<71, 100>>},
   refreshes |-> 1,
   track |-> FALSE, audit |-> FALSE]

\* ------------------------------------------------------------ state

VARIABLES
  subscriptions,           \* the Map, as its entries in insertion order
  latestUsdPricePerOunce,  \* JsNull or a number
  latestUsdToJodRate,      \* JsNull or a number
  latestFetchError,        \* JsNull or the caught error
  refreshes,               \* bag of refreshReferencePrices invocations awaiting Promise.all
  timersStarted,           \* startMonitoring has passed its await and set both intervals
  runs,                    \* bag of evaluateSubscriptions invocations awaiting transporter.sendMail
  smtpConfigured,          \* SMTP_HOST, SMTP_USER and SMTP_PASS are all set
  computed,                \* per identity: the status its latest evaluation computed (history)
  traj,                    \* per identity: progress of its latest evaluations along Pattern (history)
  excess,                  \* per identity: alerts dispatched minus breach transitions written (history)
  event                    \* what the last step did (observation)

vars == <<subscriptions, latestUsdPricePerOunce, latestUsdToJodRate, latestFetchError,
          refreshes, timersStarted, runs, smtpConfigured, computed, traj, excess, event>>

cache == <<latestUsdPricePerOunce, latestUsdToJodRate, latestFetchError>>
history == <<computed, traj, excess>>

NoEvent ==
  [op |-> "none", caller |-> "none", email |-> "", first |-> 0, suspendedAt |-> 0,
   calls |-> <<>>, mail |-> <<>>, replaced |-> FALSE, owed |-> <<>>, response |-> "none",
   args |-> <<>>, result |-> <<>>, overtaken |-> FALSE, before |-> <<>>, reads |-> <<>>,
   crossed |-> FALSE]

\* ------------------------------------------------------------ the registry (a Map)

MapIndex(m, k) ==
  IF \E i \in 1..Len(m) : m[i].email = k
  THEN CHOOSE i \in 1..Len(m) : m[i].email = k
  ELSE 0

MapHas(m, k) == MapIndex(m, k) # 0

\* faulty variant: an existing key keeps the lastStatus of the entry it replaces
MapSet_KeepsLastStatus(m, k, entry) ==
  IF \E i \in 1..Len(m) : m[i].email = k
  THEN [m EXCEPT ![CHOOSE i \in 1..Len(m) : m[i].email = k] =
                   [entry EXCEPT !.lastStatus = m[CHOOSE i \in 1..Len(m) : m[i].email = k].lastStatus]]
  ELSE Append(m, entry)

\* Map.prototype.set: an existing key keeps its place in the iteration order
MapSet(m, k, entry) ==
  IF MapHas(m, k) THEN [m EXCEPT ![MapIndex(m, k)] = entry] ELSE Append(m, entry)

LastStatusOf(m, k) == IF MapHas(m, k) THEN m[MapIndex(m, k)].lastStatus ELSE Unset

\* ------------------------------------------------------------ the evaluation cycle

\* faulty variant: the error flag is not looked at
cacheUnavailable_IgnoresError ==
  \/ latestUsdPricePerOunce = JsNull
  \/ latestUsdToJodRate = JsNull

\* line 153
cacheUnavailable ==
  \/ latestFetchError # JsNull
  \/ latestUsdPricePerOunce = JsNull
  \/ latestUsdToJodRate = JsNull

\* getEmailTransporter() returns a transport
getEmailTransporter == smtpConfigured

\* lines 158-169: the status one subscription evaluates to against the cache
statusOf(subscription) ==
  evaluateStatus(
    convertPrice(latestUsdPricePerOunce.v, subscription.unit, subscription.currency,
                 latestUsdToJodRate.v, JsRat(subscription.purity)),
    subscription.lower_threshold, subscription.upper_threshold)

\* faulty variant: only a return to the range is stored
writeLastStatus_OnlyWithin(subs, i, status) ==
  IF status = "within_range" THEN [subs EXCEPT ![i].lastStatus = status] ELSE subs

\* faulty variant: the early continue of line 182 comes before the write
writeLastStatus_SkipWithin(subs, i, status) ==
  IF status = "within_range" THEN subs ELSE [subs EXCEPT ![i].lastStatus = status]

\* faulty variant: lastStatus is set once and never overwritten
writeLastStatus_OnlyUnset(subs, i, status) ==
  IF subs[i].lastStatus = Unset THEN [subs EXCEPT ![i].lastStatus = status] ELSE subs

\* line 180
writeLastStatus(subs, i, status) == [subs EXCEPT ![i].lastStatus = status]

\* The loop of evaluateSubscriptions from entry i on, up to its next suspension:
\* with a transport, sendAlertEmail awaits transporter.sendMail and the loop is
\* suspended at that entry; without one it returns at once and the loop goes on.
\* evals lists what was evaluated, calls the sendAlertEmail calls made.
RECURSIVE evaluateLoop(_, _, _, _)
evaluateLoop(subs, i, evals, calls) ==
  IF i > Len(subs)
  THEN [subs |-> subs, evals |-> evals, calls |-> calls, suspendedAt |-> 0]
  ELSE
    LET subscription == subs[i]
        status == statusOf(subscription)
        previousStatus == subscription.lastStatus
        written == writeLastStatus(subs, i, status)
        alert == status # "within_range" /\ shouldAlert(previousStatus, status)
        evals2 == Append(evals, [email |-> subscription.email, status |-> status,
                                 sent |-> alert, previous |-> previousStatus])
        calls2 == Append(calls, [to |-> subscription.email, breached |-> breachedText(status)])
    IN  IF ~alert THEN evaluateLoop(written, i + 1, evals2, calls)
        ELSE IF getEmailTransporter
        THEN [subs |-> written, evals |-> evals2, calls |-> calls2, suspendedAt |-> i]
        ELSE evaluateLoop(written, i + 1, evals2, calls2)

\* evaluateSubscriptions() as called by the timer or by POST /api/monitor
evaluateSubscriptions(subs) ==
  IF cacheUnavailable
  THEN [subs |-> subs, evals |-> <<>>, calls |-> <<>>, suspendedAt |-> 0]
  ELSE evaluateLoop(subs, 1, <<>>, <<>>)

\* ------------------------------------------------------------ history of evaluations

Pattern == <<"within_range", "below_range", "within_range", "below_range">>

Min(a, b) == IF a < b THEN a ELSE b

\* The flags (alert dispatched or not) of the latest evaluations of one
\* subscription, as many as form the longest prefix of Pattern they end with.
TrajStep(t, status, sent) ==
  LET hs == Append(SubSeq(Pattern, 1, Len(t)), status)
      fs == Append(t, sent)
      fits(j) == \A m \in 1..j : hs[Len(hs) - j + m] = Pattern[m]
      best == CHOOSE j \in 0..Min(Len(Pattern), Len(hs)) :
                /\ fits(j)
                /\ \A j2 \in 0..Min(Len(Pattern), Len(hs)) : fits(j2) => j2 <= j
  IN  SubSeq(fs, Len(fs) - best + 1, Len(fs))

EvalOf(evals, e) == CHOOSE i \in 1..Len(evals) : evals[i].email = e
Evaluated(evals, e) == \E i \in 1..Len(evals) : evals[i].email = e
CallsTo(calls, e) == Cardinality({i \in 1..Len(calls) : calls[i].to = e})

\* a write of lastStatus that changed it to a breach status
BreachWritten(before, after, e) ==
  /\ LastStatusOf(after, e) \in {"below_range", "above_range"}
  /\ LastStatusOf(after, e) # LastStatusOf(before, e)

\* the history variables after a segment that took the registry from before to res.subs;
\* c, t and x are the history the segment starts from
Record(env, c, t, x, before, res) ==
  /\ computed' = [e \in Emails |->
        IF Evaluated(res.evals, e) THEN res.evals[EvalOf(res.evals, e)].status ELSE c[e]]
  /\ traj' = [e \in Emails |->
        IF env.track /\ Evaluated(res.evals, e)
        THEN TrajStep(t[e], res.evals[EvalOf(res.evals, e)].status, res.evals[EvalOf(res.evals, e)].sent)
        ELSE t[e]]
  /\ excess' = [e \in Emails |->
        x[e] + CallsTo(res.calls, e) - (IF BreachWritten(before, res.subs, e) THEN 1 ELSE 0)]

\* The alert a registration is to dispatch in its own evaluation before it
\* answers: the one the values cached at the POST call for, if any.
owedAtPost(env, stored, email) ==
  IF ~env.audit \/ cacheUnavailable \/ statusOf(stored[MapIndex(stored, email)]) = "within_range"
  THEN <<>>
  ELSE <<[to |-> email, breached |-> breachedText(statusOf(stored[MapIndex(stored, email)]))]>>

\* what is still owed after a segment that made calls
stillOwed(owes, calls) ==
  IF owes # <<>> /\ \E i \in 1..Len(calls) : calls[i] = owes[1] THEN <<>> ELSE owes

\* the lastStatus values the evaluations of a segment read (line 179), kept when env.audit
readsOf(env, res) ==
  IF env.audit THEN [k \in 1..Len(res.evals) |-> res.evals[k].previous] ELSE <<>>

Suspend(bag, caller, owes, crossed, res) ==
  IF res.suspendedAt = 0 THEN bag
  ELSE bag (+) SetToBag({[caller |-> caller, i |-> res.suspendedAt,
                          mail |-> res.calls[Len(res.calls)],
                          owes |-> stillOwed(owes, res.calls),
                          replaced |-> FALSE,
                          crossed |-> crossed]})

\* subscriptions.set(email, ...) of line 248 puts a new object in the place of
\* the entry a suspended cycle is sending a mail for
markReplaced(env, r, email) ==
  IF env.audit /\ r.mail.to = email THEN [r EXCEPT !.replaced = TRUE] ELSE r

Replace(env, bag, email) == BagOfAll(LAMBDA r : markReplaced(env, r, email), bag)

\* ------------------------------------------------------------ initial state

\* The module has been loaded: startMonitoring() has called
\* refreshReferencePrices(), whose two fetches are in flight; the intervals are
\* set only after that first refresh has settled.  app.listen serves requests.
Init ==
  /\ subscriptions = <<>>
  /\ latestUsdPricePerOunce = JsNull
  /\ latestUsdToJodRate = JsNull
  /\ latestFetchError = JsNull
  /\ refreshes = SetToBag({[gold |-> Pending, fx |-> Pending, rank |-> 0, overtaken |-> FALSE]})
  /\ timersStarted = FALSE
  /\ runs = EmptyBag
  /\ smtpConfigured \in BOOLEAN
  /\ computed = [e \in Emails |-> Unset]
  /\ traj = [e \in Emails |-> <<>>]
  /\ excess = [e \in Emails |-> 0]
  /\ event = NoEvent

\* ------------------------------------------------------------ refreshReferencePrices

\* setInterval(refreshReferencePrices, 10 * 1000) fires: both fetches start
RefreshStart(env) ==
  /\ timersStarted
  /\ BagCardinality(refreshes) < env.refreshes
  /\ refreshes' = refreshes (+) SetToBag({[gold |-> Pending, fx |-> Pending,
                                            rank |-> IF env.audit THEN BagCardinality(refreshes) ELSE 0,
                                            overtaken |-> FALSE]})
  /\ event' = NoEvent
  /\ UNCHANGED <<subscriptions, cache, timersStarted, runs, smtpConfigured, history>>

\* lines 84-86: Promise.all has resolved with both values
storeSnapshot(usdPerOunce, usdToJod) ==
  /\ latestUsdPricePerOunce' = usdPerOunce
  /\ latestUsdToJodRate' = usdToJod
  /\ latestFetchError' = JsNull

\* faulty variant: a failed refresh also drops the values fetched before
storeError_DropsValues(error) ==
  /\ latestFetchError' = error
  /\ latestUsdPricePerOunce' = JsNull
  /\ latestUsdToJodRate' = JsNull

\* lines 91-94: Promise.all has rejected
storeError(error) ==
  /\ latestFetchError' = error
  /\ UNCHANGED <<latestUsdPricePerOunce, latestUsdToJodRate>>

\* History kept when env.audit: a refresh awaiting its fetches carries its rank
\* (how many of the others started before it) and whether a refresh that
\* started after it has stored its result already.
endRefresh(env, r) ==
  IF env.audit
  THEN BagOfAll(LAMBDA q : [q EXCEPT !.rank = IF q.rank > r.rank THEN q.rank - 1 ELSE q.rank,
                                     !.overtaken = q.overtaken \/ q.rank < r.rank],
                refreshes (-) SetToBag({r}))
  ELSE refreshes (-) SetToBag({r})

refreshedEvent(env, r) ==
  IF env.audit THEN [NoEvent EXCEPT !.op = "refreshed", !.overtaken = r.overtaken] ELSE NoEvent

\* History kept when env.audit: a suspended cycle carries whether the cache
\* has been written since the cycle started.
crossRuns(env) ==
  IF env.audit THEN BagOfAll(LAMBDA c : [c EXCEPT !.crossed = TRUE], runs) ELSE runs

\* History kept when env.audit: a subscription registered on an unavailable
\* cache is marked until a refresh succeeds.
AwaitsRefresh == "awaits refresh"

refreshSeen(env) ==
  IF env.audit
  THEN [e \in Emails |-> IF computed[e] = AwaitsRefresh THEN Unset ELSE computed[e]]
  ELSE computed

\* One fetch of refresh r settles.  Promise.all rejects with the first
\* rejection and resolves with the last fulfilment; the continuation of
\* refreshReferencePrices (and, for the first refresh, of startMonitoring)
\* runs in the same turn of the event loop.
FetchSettles(env, r, which, outcome) ==
  LET other == IF which = "gold" THEN r.fx ELSE r.gold
      usdPerOunce == IF which = "gold" THEN outcome ELSE r.gold
      usdToJod == IF which = "fx" THEN outcome ELSE r.fx
  IN
  /\ (IF which = "gold" THEN r.gold ELSE r.fx) = Pending
  /\ IF outcome = FetchError
     THEN /\ storeError(FetchError)
          /\ refreshes' = endRefresh(env, r)
          /\ timersStarted' = TRUE
          /\ event' = refreshedEvent(env, r)
          /\ runs' = crossRuns(env)
          /\ UNCHANGED computed
     ELSE IF other = Pending
     THEN /\ refreshes' = (refreshes (-) SetToBag({r}))
                            (+) SetToBag({[r EXCEPT !.gold = usdPerOunce, !.fx = usdToJod]})
          /\ event' = NoEvent
          /\ UNCHANGED <<cache, timersStarted, runs, computed>>
     ELSE /\ storeSnapshot(usdPerOunce, usdToJod)
          /\ refreshes' = endRefresh(env, r)
          /\ timersStarted' = TRUE
          /\ event' = refreshedEvent(env, r)
          /\ runs' = crossRuns(env)
          /\ computed' = refreshSeen(env)
  /\ UNCHANGED <<subscriptions, smtpConfigured, traj, excess>>

GoldFetchSettles(env) ==
  \E r \in BagToSet(refreshes) : \E outcome \in {JsRat(p) : p \in env.prices} \cup {FetchError} :
    FetchSettles(env, r, "gold", outcome)

FxFetchSettles(env) ==
  \E r \in BagToSet(refreshes) : \E outcome \in {JsRat(q) : q \in env.rates} \cup {FetchError} :
    FetchSettles(env, r, "fx", outcome)

\* ------------------------------------------------------------ evaluation cycles

\* setInterval(evaluateSubscriptions, 10 * 1000) fires
TimerEvaluate(env) ==
  LET res == evaluateSubscriptions(subscriptions)
  IN
  /\ timersStarted
  /\ subscriptions' = res.subs
  /\ runs' = Suspend(runs, "timer", <<>>, FALSE, res)
  /\ BagCardinality(runs') <= MaxRuns
  /\ Record(env, computed, traj, excess, subscriptions, res)
  /\ event' = [NoEvent EXCEPT !.op = "evaluate", !.caller = "timer",
                              !.reads = readsOf(env, res),
                              !.first = IF res.evals = <<>> THEN 0 ELSE 1,
                              !.suspendedAt = res.suspendedAt, !.calls = res.calls]
  /\ UNCHANGED <<cache, refreshes, timersStarted, smtpConfigured>>

\* transporter.sendMail of a suspended cycle settles; a rejection is caught and
\* logged (lines 194-196) and the loop goes on with the next entry either way.
sendMailSettled(env, r, ok) ==
  LET res == evaluateLoop(subscriptions, r.i + 1, <<>>, <<>>)
  IN
  /\ subscriptions' = res.subs
  /\ runs' = Suspend(runs (-) SetToBag({r}), r.caller, r.owes, r.crossed, res)
  /\ Record(env, computed, traj, excess, subscriptions, res)
  /\ event' = [NoEvent EXCEPT !.op = IF ok THEN "sendMailDone" ELSE "sendMailFailed",
                              !.caller = r.caller, !.mail = <<r.mail>>,
                              !.replaced = r.replaced, !.crossed = r.crossed,
                              !.reads = readsOf(env, res),
                              !.first = r.i + 1,
                              !.suspendedAt = res.suspendedAt, !.calls = res.calls,
                              !.owed = stillOwed(r.owes, res.calls),
                              !.response = IF r.caller = "monitor" /\ res.suspendedAt = 0
                                           THEN "200 monitoring" ELSE "none"]
  /\ UNCHANGED <<cache, refreshes, timersStarted, smtpConfigured>>

SendMailSettles(env) ==
  \E r \in BagToSet(runs) : \E ok \in BOOLEAN : sendMailSettled(env, r, ok)

\* ------------------------------------------------------------ POST /api/monitor

\* lines 244-256: the entry stored for an accepted body
newSubscription(body, lower, upper) ==
  [email |-> body.email.s[1],
   unit |-> IF IsText(body.unit, "gram") THEN "gram" ELSE "ounce",
   currency |-> IF IsText(body.currency, "JOD") THEN "JOD" ELSE "USD",
   purity |-> IF IsFinite(ToNumber(body.purity)) /\ ToNumber(body.purity).v \in VALID_PURITY_LEVELS
              THEN ToNumber(body.purity).v ELSE RatInt(24),
   lower_threshold |-> lower.v,
   upper_threshold |-> upper.v,
   lastStatus |-> Unset]

\* line 233
emailRejected(body) == Falsy(body.email) \/ body.email.t # "string"

\* lines 237-240
\* faulty variant: equal thresholds pass (lower > upper in place of lower >= upper)
thresholdsRejected_AllowsEqual(body) ==
  LET lower == ToNumber(body.lower_threshold)
      upper == ToNumber(body.upper_threshold)
  IN  \/ ~IsFinite(lower)
      \/ ~IsFinite(upper)
      \/ RatLt(upper.v, lower.v)

thresholdsRejected(body) ==
  LET lower == ToNumber(body.lower_threshold)
      upper == ToNumber(body.upper_threshold)
  IN  \/ ~IsFinite(lower)
      \/ ~IsFinite(upper)
      \/ ~RatLt(lower.v, upper.v)

Reject(body, response) ==
  /\ event' = [NoEvent EXCEPT !.op = "monitor", !.caller = "monitor", !.response = response]
  /\ UNCHANGED <<subscriptions, cache, refreshes, timersStarted, runs, smtpConfigured, history>>

MonitorPost(env, body) ==
  IF emailRejected(body) THEN Reject(body, "400 Valid email is required.")
  ELSE IF thresholdsRejected(body)
  THEN Reject(body, "400 Thresholds must be numeric and lower < upper.")
  ELSE
    LET entry == newSubscription(body, ToNumber(body.lower_threshold), ToNumber(body.upper_threshold))
        email == entry.email
        stored == MapSet(subscriptions, email, entry)
        res == evaluateSubscriptions(stored)
    IN
    /\ subscriptions' = res.subs
    /\ runs' = Suspend(Replace(env, runs, email), "monitor", owedAtPost(env, stored, email), FALSE, res)
    /\ BagCardinality(runs') <= MaxRuns
    /\ Record(env, [computed EXCEPT ![email] = IF env.audit /\ cacheUnavailable
                                                  THEN AwaitsRefresh ELSE Unset],
              [traj EXCEPT ![email] = <<>>],
              [excess EXCEPT ![email] = 0], stored, res)
    /\ event' = [NoEvent EXCEPT !.op = "monitor", !.caller = "monitor", !.email = email,
                                !.reads = readsOf(env, res),
                                !.before = IF env.audit /\ MapHas(subscriptions, email)
                                           THEN <<LastStatusOf(subscriptions, email)>> ELSE <<>>,
                                !.first = IF res.evals = <<>> THEN 0 ELSE 1,
                                !.suspendedAt = res.suspendedAt, !.calls = res.calls,
                                !.owed = stillOwed(owedAtPost(env, stored, email), res.calls),
                                !.response = IF res.suspendedAt = 0 THEN "200 monitoring" ELSE "none"]
    /\ UNCHANGED <<cache, refreshes, timersStarted, smtpConfigured>>

Monitor(env) == \E body \in env.bodies : MonitorPost(env, body)

\* ------------------------------------------------------------ specification

NextIn(env) ==
  \/ RefreshStart(env)
  \/ GoldFetchSettles(env)
  \/ FxFetchSettles(env)
  \/ TimerEvaluate(env)
  \/ SendMailSettles(env)
  \/ Monitor(env)

Next == NextIn(EngineEnv)

Spec == Init /\ [][Next]_vars

\* one subscriber, followed along Pattern
SpecTrajectory == Init /\ [][NextIn(TrajectoryEnv)]_vars

\* the cache under overlapping refreshes
SpecRefresh == Init /\ [][NextIn(RefreshEnv)]_vars

\* cycles followed from the registration or the send they belong to
SpecAudit == Init /\ [][NextIn(AuditEnv)]_vars

\* overlapping refreshes, followed in the order they started
SpecOverlap == Init /\ [][NextIn(OverlapEnv)]_vars

\* re-registration and price swings
SpecHistory == Init /\ [][NextIn(HistoryEnv)]_vars

\* registration with well-formed and malformed bodies
SpecMonitor == Init /\ [][NextIn(MonitorEnv)]_vars

\* ------------------------------------------------------------ GET /api/price, GET /api/agent

Query(unit, currency, purity, lower, upper) ==
  [unit |-> unit, currency |-> currency, purity |-> purity,
   lower_threshold |-> lower, upper_threshold |-> upper]

\* req.query holds text, or nothing for a parameter that is not given
PriceQueries ==
  {Query(JsUndefined, JsUndefined, JsUndefined, JsUndefined, JsUndefined),
   Query(JsStr(<<"gram">>), JsStr(<<"JOD">>), JsStr(<<"2", "1">>), JsUndefined, JsUndefined)}

AgentQueries ==
  {Query(JsUndefined, JsUndefined, JsUndefined,
         JsStr(<<"1", "9", "0", "0">>), JsStr(<<"2", "1", "0", "0">>)),
   Query(JsStr(<<"gram">>), JsStr(<<"JOD">>), JsStr(<<"2", "1">>),
         JsStr(<<"3", "0">>), JsStr(<<"4", "0">>)),
   Query(JsUndefined, JsUndefined, JsUndefined,
         JsStr(<<"2", "1", "0", "0">>), JsStr(<<"1", "9", "0", "0">>)),
   Query(JsUndefined, JsUndefined, JsUndefined, JsUndefined, JsUndefined)}

\* one subscriber, two prices, and the two read endpoints
QueryEnv ==
  [bodies |-> {DefaultBody("a@x.com")},
   prices |-> {RatInt(2000), RatInt(2200)},
   rates |-> {<<71, 100>>},
   refreshes |-> 1,
   track |-> FALSE, audit |-> FALSE]

\* lines 203-206 and 266-271
normalizedUnit(q) == IF IsText(q.unit, "gram") THEN "gram" ELSE "ounce"
normalizedCurrency(q) == IF IsText(q.currency, "JOD") THEN "JOD" ELSE "USD"
normalizedPurity(q) ==
  IF IsFinite(ToNumber(q.purity)) /\ ToNumber(q.purity).v \in VALID_PURITY_LEVELS
  THEN ToNumber(q.purity).v ELSE RatInt(24)

\* faulty variant: the error flag is not looked at
priceUnavailable_IgnoresError ==
  \/ latestUsdPricePerOunce = JsNull
  \/ latestUsdToJodRate = JsNull

\* line 208
priceUnavailable ==
  \/ latestFetchError # JsNull
  \/ latestUsdPricePerOunce = JsNull
  \/ latestUsdToJodRate = JsNull

\* line 277
agentUnavailable ==
  \/ latestFetchError # JsNull
  \/ latestUsdPricePerOunce = JsNull
  \/ latestUsdToJodRate = JsNull

currentPriceOf(q) ==
  convertPrice(latestUsdPricePerOunce.v, normalizedUnit(q), normalizedCurrency(q),
               latestUsdToJodRate.v, JsRat(normalizedPurity(q)))

\* lines 202-228
PriceGet(q) ==
  /\ event' = IF priceUnavailable
              THEN [NoEvent EXCEPT !.op = "price", !.args = <<q>>,
                      !.response = "503 Price data currently unavailable. Please try again soon."]
              ELSE [NoEvent EXCEPT !.op = "price", !.args = <<q>>, !.response = "200",
                      !.result = <<[current_price |-> toFixed4(currentPriceOf(q)),
                                    unit |-> normalizedUnit(q),
                                    currency |-> normalizedCurrency(q)]>>]
  /\ UNCHANGED <<subscriptions, cache, refreshes, timersStarted, runs, smtpConfigured, history>>

\* lines 265-300
AgentGet(q) ==
  LET lower == ToNumber(q.lower_threshold)
      upper == ToNumber(q.upper_threshold)
  IN
  /\ event' = IF ~IsFinite(lower) \/ ~IsFinite(upper) \/ ~RatLt(lower.v, upper.v)
              THEN [NoEvent EXCEPT !.op = "agent", !.args = <<q>>,
                      !.response = "400 Thresholds must be numeric and lower < upper."]
              ELSE IF agentUnavailable
              THEN [NoEvent EXCEPT !.op = "agent", !.args = <<q>>,
                      !.response = "503 Price data currently unavailable."]
              ELSE [NoEvent EXCEPT !.op = "agent", !.args = <<q>>, !.response = "200",
                      !.result = <<buildPayload(currentPriceOf(q), normalizedUnit(q),
                                                normalizedCurrency(q), lower.v, upper.v,
                                                evaluateStatus(currentPriceOf(q), lower.v, upper.v))>>]
  /\ UNCHANGED <<subscriptions, cache, refreshes, timersStarted, runs, smtpConfigured, history>>

PriceQuery == \E q \in PriceQueries : PriceGet(q)

AgentQuery == \E q \in AgentQueries : AgentGet(q)

NextQuery == NextIn(QueryEnv) \/ PriceQuery \/ AgentQuery

\* the monitor together with its two read endpoints
SpecQuery == Init /\ [][NextQuery]_vars

\* ------------------------------------------------------------ the pure functions alone

\* prices and thresholds evaluateStatus is applied to, in either order of the thresholds
StatusInputs == {RatInt(1800), RatInt(1900), <<39999, 20>>, RatInt(2000), RatInt(2100), RatInt(2200)}

\* calls of evaluateStatus(currentPrice, lowerThreshold, upperThreshold)
StatusCalls ==
  {[NoEvent EXCEPT !.op = "call evaluateStatus", !.args = <<c, l, u>>] :
     c \in StatusInputs, l \in StatusInputs, u \in StatusInputs}

\* calls of convertPrice followed by buildPayload and evaluateStatus against
\* 30 and 40, as /api/agent makes them (lines 281-297)
ConvertCalls ==
  {[NoEvent EXCEPT !.op = "call convertPrice",
                   !.args = <<usdPerOunce, unit, currency, usdToJod, purity, 30, 40>>] :
     usdPerOunce \in Prices, unit \in {"ounce", "gram"}, currency \in {"USD", "JOD"},
     usdToJod \in Rates, purity \in VALID_PURITY_LEVELS}

InitPure ==
  /\ subscriptions = <<>>
  /\ latestUsdPricePerOunce = JsNull
  /\ latestUsdToJodRate = JsNull
  /\ latestFetchError = JsNull
  /\ refreshes = EmptyBag
  /\ timersStarted = FALSE
  /\ runs = EmptyBag
  /\ smtpConfigured = FALSE
  /\ computed = [e \in Emails |-> Unset]
  /\ traj = [e \in Emails |-> <<>>]
  /\ excess = [e \in Emails |-> 0]
  /\ event \in StatusCalls \cup ConvertCalls

ApplyEvaluateStatus ==
  /\ event.op = "call evaluateStatus"
  /\ event' = [event EXCEPT !.op = "evaluateStatus",
                            !.result = <<evaluateStatus(event.args[1], event.args[2], event.args[3])>>]
  /\ UNCHANGED <<subscriptions, cache, refreshes, timersStarted, runs, smtpConfigured, history>>

ApplyConvertPrice ==
  LET a == event.args
      currentPrice == convertPrice(a[1], a[2], a[3], a[4], JsRat(a[5]))
      status == evaluateStatus(currentPrice, RatInt(a[6]), RatInt(a[7]))
  IN
  /\ event.op = "call convertPrice"
  /\ event' = [event EXCEPT !.op = "convertPrice",
                            !.result = <<currentPrice,
                                         buildPayload(currentPrice, a[2], a[3],
                                                      RatInt(a[6]), RatInt(a[7]), status)>>]
  /\ UNCHANGED <<subscriptions, cache, refreshes, timersStarted, runs, smtpConfigured, history>>

NextPure == ApplyEvaluateStatus \/ ApplyConvertPrice

SpecPure == InitPure /\ [][NextPure]_vars

\* ------------------------------------------------------------ reading the last step

Breach == {"below_range", "above_range"}

\* the entries the last step evaluated
EvaluatedIdx(ev, subs) ==
  IF ev.first = 0 THEN {}
  ELSE ev.first..(IF ev.suspendedAt = 0 THEN Len(subs) ELSE ev.suspendedAt)

EvaluatedEmails(ev, subs) == {subs[i].email : i \in EvaluatedIdx(ev, subs)}

\* the last step was an accepted POST /api/monitor
Registered(ev) == ev.op = "monitor" /\ ev.email # ""

\* the lastStatus an evaluation of e in the step finds: unset for the identity
\* the step registers, else what the registry held before the step
PreviousOf(ev, before, e) ==
  IF Registered(ev) /\ ev.email = e THEN Unset ELSE LastStatusOf(before, e)

DirectionOf(status) ==
  CASE status = "below_range" -> "below lower threshold"
    [] status = "above_range" -> "above upper threshold"
    [] OTHER -> "none"

CallsWith(calls, e, breached) ==
  Cardinality({i \in 1..Len(calls) : calls[i].to = e /\ calls[i].breached = breached})

\* ------------------------------------------------------------ claims

\* C1: in every evaluation of a subscription, sendAlertEmail is called (once)
\* if and only if the newly computed status is not within_range and differs
\* from the lastStatus the evaluation found (unset differs from every status);
\* nothing is dispatched to an identity the step did not evaluate.
C1_AlertIffNewBreach ==
  [][\A e \in Emails :
       CallsTo(event'.calls, e) =
         (IF /\ e \in EvaluatedEmails(event', subscriptions')
             /\ computed'[e] # "within_range"
             /\ computed'[e] # PreviousOf(event', subscriptions, e)
          THEN 1 ELSE 0)]_vars

\* C1 witness: one segment evaluated two subscriptions, alerting one and not the other
C1_Witness ==
  \E e1, e2 \in EvaluatedEmails(event, subscriptions) :
    /\ CallsTo(event.calls, e1) = 1
    /\ CallsTo(event.calls, e2) = 0

\* C2 (the claim as stated): the first evaluation of a newly registered
\* subscription that finds the price out of range dispatches exactly one alert
\* with the matching direction, and an accepted POST /api/monitor with lower
\* 1900, upper 2100 (ounce, USD, 24) on a healthy cache at 2200 dispatches
\* exactly one "above upper threshold" alert to that identity in the
\* registration's own evaluation before the registration answers: no
\* registration answers while the alert that the values cached at its POST
\* call for is still owed by its evaluation.
C2_RegistrationAlertsAtOnce ==
  [][/\ \A e \in EvaluatedEmails(event', subscriptions') :
          (PreviousOf(event', subscriptions, e) = Unset /\ computed'[e] \in Breach)
            => /\ CallsTo(event'.calls, e) = 1
               /\ CallsWith(event'.calls, e, DirectionOf(computed'[e])) = 1
     /\ (event'.caller = "monitor" /\ event'.response = "200 monitoring")
          => event'.owed = <<>>]_vars

\* C3: an evaluation dispatches at most one alert, and an evaluation of a
\* subscription that is not re-registered and computes the same out-of-range
\* status as the evaluation before it dispatches nothing.
C3_SameBreachSilent ==
  [][\A e \in EvaluatedEmails(event', subscriptions') :
       /\ CallsTo(event'.calls, e) <= 1
       /\ ( /\ ~(Registered(event') /\ event'.email = e)
            /\ computed[e] \in Breach
            /\ computed'[e] = computed[e] )
          => CallsTo(event'.calls, e) = 0]_vars

\* C3 witness: a cycle evaluated a subscription it did not register to a breach
\* status and stayed silent
C3_Witness ==
  \E e \in EvaluatedEmails(event, subscriptions) :
    /\ ~(Registered(event) /\ event.email = e)
    /\ computed[e] \in Breach
    /\ CallsTo(event.calls, e) = 0

\* C4: when the four latest evaluations of a subscription computed
\* within_range, below_range, within_range, below_range, alerts were dispatched
\* at the second and the fourth and at neither within_range evaluation.
C4_TwoAlertsOnPattern ==
  \A e \in Emails : Len(traj[e]) = Len(Pattern) => traj[e] = <<FALSE, TRUE, FALSE, TRUE>>

\* C4 witness: a subscription whose four latest evaluations ran along Pattern
C4_Witness == \E e \in Emails : Len(traj[e]) = Len(Pattern)

\* C5: a cycle invoked (by the timer or by a registration) while the cache is
\* errored or unpopulated writes no lastStatus, dispatches nothing and suspends
\* nowhere; only the registered entry itself is stored, with lastStatus unset.
C5_UnavailableCycleSkipped ==
  [][( /\ \/ latestFetchError # JsNull
          \/ latestUsdPricePerOunce = JsNull
          \/ latestUsdToJodRate = JsNull
       /\ event'.op = "evaluate" \/ Registered(event') )
     => /\ event'.calls = <<>>
        /\ event'.suspendedAt = 0
        /\ BagCardinality(runs') = BagCardinality(runs)
        /\ \A e \in Emails : LastStatusOf(subscriptions', e) = PreviousOf(event', subscriptions, e)
        /\ \A i \in 1..Len(subscriptions) :
             ~(Registered(event') /\ event'.email = subscriptions[i].email)
               => subscriptions'[i] = subscriptions[i]]_vars

\* C5 witness: the timer invoked a cycle on an errored cache that still holds
\* values under which a subscription's status differs from its lastStatus
C5_Witness ==
  /\ event.op = "evaluate"
  /\ latestFetchError # JsNull
  /\ latestUsdPricePerOunce # JsNull
  /\ latestUsdToJodRate # JsNull
  /\ \E i \in 1..Len(subscriptions) : subscriptions[i].lastStatus # statusOf(subscriptions[i])

\* C6 (the claim as stated): when a send fails for a subscription that has not
\* been registered anew meanwhile, the failing subscription's lastStatus holds
\* the status computed for that send, the cycle goes on with
\* the next entry, no other field of any subscription changes, and a
\* registration that ends there answers normally.
C6_SendFailureContained ==
  [][(event'.op = "sendMailFailed" /\ ~event'.replaced) =>
       LET m == event'.mail[1]
           i == MapIndex(subscriptions, m.to)
       IN  /\ DirectionOf(LastStatusOf(subscriptions', m.to)) = m.breached
           /\ event'.first = i + 1
           /\ Len(subscriptions') = Len(subscriptions)
           /\ \A j \in 1..Len(subscriptions) :
                subscriptions'[j] =
                  [subscriptions[j] EXCEPT !.lastStatus = subscriptions'[j].lastStatus]
           /\ event'.suspendedAt = 0 /\ event'.caller = "monitor"
                => event'.response = "200 monitoring"]_vars

\* C7: a refresh that ends with both fetches fulfilled stores both of its own
\* values and clears the error in that one step; one that ends with a rejection
\* leaves price and rate as they were and sets the error; no other step
\* changes the cache.
C7_RefreshJoinsAtomically ==
  [][IF BagCardinality(refreshes') >= BagCardinality(refreshes)
     THEN cache' = cache
     ELSE \E r \in BagToSet(refreshes) :
            /\ refreshes' = refreshes (-) SetToBag({r})
            /\ \/ /\ latestFetchError' = JsNull
                  /\ (r.gold = Pending) # (r.fx = Pending)
                  /\ r.gold # Pending => latestUsdPricePerOunce' = r.gold
                  /\ r.fx # Pending => latestUsdToJodRate' = r.fx
                  /\ latestUsdPricePerOunce' \in {JsRat(p) : p \in RefreshEnv.prices}
                  /\ latestUsdToJodRate' \in {JsRat(q) : q \in RefreshEnv.rates}
               \/ /\ latestFetchError' # JsNull
                  /\ latestUsdPricePerOunce' = latestUsdPricePerOunce
                  /\ latestUsdToJodRate' = latestUsdToJodRate]_vars

\* C7 witness: a refresh failed after an earlier one had succeeded, while a
\* third is awaiting its second fetch
C7_Witness ==
  /\ latestFetchError # JsNull
  /\ latestUsdPricePerOunce # JsNull
  /\ latestUsdToJodRate # JsNull
  /\ \E r \in BagToSet(refreshes) : (r.gold = Pending) # (r.fx = Pending)

\* a value that is a finite number, or text that spells one
DenotesFiniteNumber(x) ==
  \/ x.t = "number"
  \/ /\ x.t = "string"
     /\ TrimRight(TrimLeft(x.s)) # <<>>
     /\ \A k \in 1..Len(TrimRight(TrimLeft(x.s))) : IsDigit(TrimRight(TrimLeft(x.s))[k])

Malformed(body) ==
  \/ ~(body.email.t = "string" /\ body.email.s # <<>>)
  \/ ~DenotesFiniteNumber(body.lower_threshold)
  \/ ~DenotesFiniteNumber(body.upper_threshold)
  \/ ~RatLt(ToNumber(body.lower_threshold).v, ToNumber(body.upper_threshold).v)

\* C8 (the claim as stated): a registration whose identity is missing, whose
\* thresholds are not finite numbers or whose lower threshold is not below the
\* upper one is answered with a validation error, stores nothing, changes no
\* entry and triggers no evaluation.
C8_MalformedRejected ==
  [][\A body \in MonitorEnv.bodies :
       (Malformed(body) /\ MonitorPost(MonitorEnv, body))
         => /\ subscriptions' = subscriptions
            /\ runs' = runs
            /\ event'.first = 0
            /\ event'.calls = <<>>
            /\ event'.response \in {"400 Valid email is required.",
                                    "400 Thresholds must be numeric and lower < upper."}]_vars

\* C9 (the claim as stated): while a cycle started by one caller (timer or
\* registration) is suspended between reading an identity's lastStatus and the
\* end of its dispatch, no cycle started by the other caller evaluates that
\* identity.
C9_NoOverlapOnIdentity ==
  [][\A r \in BagToSet(runs) :
       (event'.caller \in {"timer", "monitor"} /\ event'.caller # r.caller)
         => r.mail.to \notin EvaluatedEmails(event', subscriptions')]_vars

\* C10: for every subscription, since its registration, the alerts dispatched
\* to it are as many as the writes that changed its lastStatus to a breach
\* status, under every interleaving of cycles, registrations and refreshes.
C10_AlertsMatchTransitions == \A e \in Emails : excess[e] = 0

\* C10 witness: while one cycle is still sending an alert to an identity,
\* another cycle evaluated that identity to a breach status and dispatched nothing
C10_Witness ==
  \E r \in BagToSet(runs) :
    /\ r.mail.to \in EvaluatedEmails(event, subscriptions)
    /\ CallsTo(event.calls, r.mail.to) = 0
    /\ LastStatusOf(subscriptions, r.mail.to) \in Breach

\* C11: the price query, and the agent query whose thresholds are valid,
\* answer 503 (unavailable) exactly when the cache is errored or unpopulated,
\* whether or not fetched values are still retained, and a payload otherwise
\* (so again as soon as a refresh has succeeded).
C11_ReadsFollowCache ==
  (event.op = "price" \/ (/\ event.op = "agent"
                          /\ IsFinite(ToNumber(event.args[1].lower_threshold))
                          /\ IsFinite(ToNumber(event.args[1].upper_threshold))
                          /\ RatLt(ToNumber(event.args[1].lower_threshold).v,
                                   ToNumber(event.args[1].upper_threshold).v)))
    => IF latestFetchError # JsNull \/ latestUsdPricePerOunce = JsNull \/ latestUsdToJodRate = JsNull
       THEN /\ event.response \in {"503 Price data currently unavailable. Please try again soon.",
                                    "503 Price data currently unavailable."}
            /\ event.result = <<>>
       ELSE /\ event.response = "200"
            /\ Len(event.result) = 1

\* C11 witness: the price query is answered unavailable while the values of an
\* earlier refresh are still retained
C11_Witness ==
  /\ event.op = "price"
  /\ event.response = "503 Price data currently unavailable. Please try again soon."
  /\ latestUsdPricePerOunce # JsNull
  /\ latestUsdToJodRate # JsNull

\* C16: evaluateStatus returns one of the three statuses: below_range exactly
\* when the price is below the lower threshold, otherwise above_range exactly
\* when it is above the upper one, otherwise within_range; a price equal to
\* either threshold (lower < upper) is within_range, and with lower > upper a
\* price below the lower threshold is below_range even when above the upper one.
C16_StatusByLowerFirst ==
  event.op = "evaluateStatus" =>
    LET c == event.args[1]
        l == event.args[2]
        u == event.args[3]
        status == event.result[1]
    IN  /\ status \in {"below_range", "within_range", "above_range"}
        /\ status = "below_range" <=> RatLt(c, l)
        /\ status = "above_range" <=> (~RatLt(c, l) /\ RatLt(u, c))
        /\ status = "within_range" <=> (~RatLt(c, l) /\ ~RatLt(u, c))
        /\ (RatLt(l, u) /\ c \in {l, u}) => status = "within_range"
        /\ (RatLt(u, l) /\ RatLt(c, l)) => status = "below_range"

\* C16 witness: thresholds out of order and a price between them
C16_Witness ==
  /\ event.op = "evaluateStatus"
  /\ RatLt(event.args[3], event.args[1])
  /\ RatLt(event.args[1], event.args[2])
  /\ event.result = <<"below_range">>

\* the call of the scenario: 2000 USD per ounce, rate 0.71, gram, JOD, purity 21, against 30 and 40
ScenarioCall ==
  /\ event.op = "convertPrice"
  /\ event.args = <<RatInt(2000), "gram", "JOD", <<71, 100>>, RatInt(21), 30, 40>>

\* C17 (as amended): for 2000 USD per ounce, rate 0.71, gram, JOD and purity 21
\* convertPrice yields 2000 / 31.1035 * 0.71 * 21 / 24, which is 39.9473 when
\* rounded to 4 decimals (about 39.95), and against 30 and 40 it is within_range.
C17_ScenarioPrice ==
  ScenarioCall =>
    /\ event.result[1] = RatMul(RatMul(RatDiv(RatInt(2000), <<311035, 10000>>), <<71, 100>>), <<21, 24>>)
    /\ event.result[2].current_price = <<399473, 10000>>
    /\ RatLt(<<39945, 1000>>, event.result[2].current_price)
    /\ RatLt(event.result[2].current_price, <<39955, 1000>>)
    /\ event.result[2].status = "within_range"

\* C17 witness: the scenario's call has been made
C17_Witness == ScenarioCall /\ event.result[2].status = "within_range"

\* C17 (the claim as stated): the scenario's price is 39.9163 when rounded to
\* 4 decimals, about 39.92, and within_range against 30 and 40.
C17_AsStated ==
  ScenarioCall =>
    /\ event.result[2].current_price = <<399163, 10000>>
    /\ RatLt(<<39915, 1000>>, event.result[2].current_price)
    /\ RatLt(event.result[2].current_price, <<39925, 1000>>)
    /\ event.result[2].status = "within_range"

\* C18 (the claim as stated): in a state where the cache is errored no step
\* evaluates a subscription (so none writes a lastStatus) and none dispatches
\* an alert, the steps that resume a cycle suspended at a send included.
C18_FailClosedAlways ==
  [][latestFetchError # JsNull =>
       /\ EvaluatedIdx(event', subscriptions') = {}
       /\ event'.calls = <<>>]_vars

\* C20 (the claim as stated): a valid registration made while the cache is
\* errored or unpopulated is accepted, stored with lastStatus unset and
\* dispatches nothing; while no refresh has succeeded since, its lastStatus
\* stays unset; and the evaluation that first writes it dispatches the alert
\* if the status is a breach.
C20_UnsetUntilHealthyCycle ==
  [][/\ ( /\ Registered(event')
          /\ \/ latestFetchError # JsNull
             \/ latestUsdPricePerOunce = JsNull
             \/ latestUsdToJodRate = JsNull )
        => /\ LastStatusOf(subscriptions', event'.email) = Unset
           /\ event'.calls = <<>>
           /\ event'.response = "200 monitoring"
     /\ \A e \in Emails :
          (computed[e] = AwaitsRefresh /\ ~(Registered(event') /\ event'.email = e))
            => LastStatusOf(subscriptions', e) = Unset
     /\ \A e \in EvaluatedEmails(event', subscriptions') :
          (PreviousOf(event', subscriptions, e) = Unset /\ computed'[e] \in Breach)
            => CallsTo(event'.calls, e) = 1]_vars

\* C19 (the claim as stated): when refreshes overlap the cache never
\* regresses: a refresh that completes after one that started later has
\* completed leaves the stored values and the error flag as they are.
C19_CacheNeverRegresses ==
  [][(event'.op = "refreshed" /\ event'.overtaken)
       => /\ latestUsdPricePerOunce' = latestUsdPricePerOunce
          /\ latestUsdToJodRate' = latestUsdToJodRate
          /\ latestFetchError' = latestFetchError]_vars

\* C14: every evaluation of a subscription leaves its lastStatus at the status
\* computed from the cache, alert or no alert, and the write is in place when
\* the dispatch is started (the entry a cycle is suspended at already holds
\* it); and when a cycle completes with a healthy cache and no refresh has
\* stored anything since it started, every subscription's lastStatus is
\* evaluateStatus(convertPrice(cached price, its unit, currency, purity),
\* its lower, its upper).
C14_LastStatusOverwritten ==
  [][/\ \A i \in EvaluatedIdx(event', subscriptions') :
          /\ subscriptions'[i].lastStatus = statusOf(subscriptions'[i])
          /\ subscriptions'[i].lastStatus = computed'[subscriptions'[i].email]
     /\ ( /\ event'.first > 0
          /\ event'.suspendedAt = 0
          /\ ~event'.crossed
          /\ ~cacheUnavailable )
        => \A i \in 1..Len(subscriptions') :
             subscriptions'[i].lastStatus =
               evaluateStatus(
                 convertPrice(latestUsdPricePerOunce'.v, subscriptions'[i].unit,
                              subscriptions'[i].currency, latestUsdToJodRate'.v,
                              JsRat(subscriptions'[i].purity)),
                 subscriptions'[i].lower_threshold, subscriptions'[i].upper_threshold)]_vars

\* a cycle that was suspended at a send has completed with no refresh in
\* between; one entry was overwritten without an alert, and both hold the
\* status of the cached price
C14_Witness ==
  /\ event.op \in {"sendMailSettled", "sendMailFailed"}
  /\ event.suspendedAt = 0
  /\ event.first > 0
  /\ ~event.crossed
  /\ ~cacheUnavailable
  /\ Len(subscriptions) = 2
  /\ event.calls = <<>>
  /\ \A i \in 1..2 : subscriptions[i].lastStatus = statusOf(subscriptions[i])

\* C12: a valid registration for an identity already in the registry puts
\* the parameters of its body in place of the stored ones, at the same place,
\* with lastStatus unset when the registration's own cycle is skipped; and an
\* evaluation that finds lastStatus unset dispatches the alert if and only if
\* the status computed with the stored (new) parameters is a breach, whatever
\* lastStatus the replaced subscription had.
C12_ReRegistrationStartsAfresh ==
  [][/\ \A body \in HistoryEnv.bodies :
          ( /\ ~emailRejected(body)
            /\ ~thresholdsRejected(body)
            /\ MapHas(subscriptions, body.email.s[1])
            /\ MonitorPost(HistoryEnv, body) )
          => LET e == body.email.s[1]
                 k == MapIndex(subscriptions, e)
                 params == newSubscription(body, ToNumber(body.lower_threshold),
                                           ToNumber(body.upper_threshold))
             IN  /\ Len(subscriptions') = Len(subscriptions)
                 /\ [subscriptions'[k] EXCEPT !.lastStatus = Unset] = params
                 /\ \A j \in 1..Len(subscriptions) :
                      j # k => subscriptions'[j].email = subscriptions[j].email
                 /\ event'.first = 0 => subscriptions'[k].lastStatus = Unset
                 /\ event'.first # 0 =>
                      /\ subscriptions'[k].lastStatus = statusOf(params)
                      /\ (CallsTo(event'.calls, e) = 1) <=> (statusOf(params) \in Breach)
                      /\ CallsTo(event'.calls, e) <= 1
     /\ \A e \in EvaluatedEmails(event', subscriptions') :
          PreviousOf(event', subscriptions, e) = Unset
            => /\ (CallsTo(event'.calls, e) = 1)
                   <=> (statusOf(subscriptions'[MapIndex(subscriptions', e)]) \in Breach)
               /\ CallsTo(event'.calls, e) <= 1]_vars

\* a subscriber whose lastStatus was below_range registers again with the
\* higher band while the price is still below it, and is alerted again
C12_Witness ==
  /\ event.op = "monitor"
  /\ event.email = "a@x.com"
  /\ event.before = <<"below_range">>
  /\ subscriptions[1].lower_threshold = RatInt(2050)
  /\ subscriptions[1].lastStatus = "below_range"
  /\ event.calls = <<[to |-> "a@x.com", breached |-> "below lower threshold"]>>

\* C13: when the status computed for a subscription is a breach and the
\* status computed by its previous evaluation was the opposite breach, the
\* evaluation dispatches exactly one alert, naming the new direction.
C13_OppositeBreachAlerts ==
  [][\A e \in EvaluatedEmails(event', subscriptions') :
       ( /\ computed[e] \in Breach
         /\ computed'[e] \in Breach
         /\ computed'[e] # computed[e] )
       => /\ CallsTo(event'.calls, e) = 1
          /\ CallsWith(event'.calls, e, DirectionOf(computed'[e])) = 1]_vars

\* a timer cycle found lastStatus above_range, computed below_range and alerted
C13_Witness ==
  /\ event.op = "evaluate"
  /\ event.reads = <<"above_range">>
  /\ computed["a@x.com"] = "below_range"
  /\ event.calls = <<[to |-> "a@x.com", breached |-> "below lower threshold"]>>

\* a stored subscription as the registry is to hold it
WellFormed(subscription) ==
  /\ RatLt(subscription.lower_threshold, subscription.upper_threshold)
  /\ subscription.unit \in {"ounce", "gram"}
  /\ subscription.currency \in {"USD", "JOD"}
  /\ subscription.purity \in {RatInt(24), RatInt(22), RatInt(21), RatInt(18)}
  /\ subscription.lastStatus \in {Unset, "below_range", "within_range", "above_range"}

\* C15: in every reachable state every stored subscription has finite
\* thresholds with lower_threshold < upper_threshold, unit ounce or gram,
\* currency USD or JOD, purity 24, 22, 21 or 18 and lastStatus unset or one
\* of the three statuses; and an accepted registration stores the unit,
\* currency and purity of its body when they are valid, ounce, USD and 24
\* when they are invalid or absent.
C15_RegistryWellFormed ==
  /\ [](\A i \in 1..Len(subscriptions) : WellFormed(subscriptions[i]))
  /\ [][\A body \in MonitorEnv.bodies :
          (MonitorPost(MonitorEnv, body) /\ event'.email # "")
            => LET stored == subscriptions'[MapIndex(subscriptions', event'.email)]
               IN  /\ stored.unit = IF IsText(body.unit, "gram") THEN "gram" ELSE "ounce"
                   /\ stored.currency = IF IsText(body.currency, "JOD") THEN "JOD" ELSE "USD"
                   /\ stored.purity =
                        IF \E p \in {24, 22, 21, 18} : ToNumber(body.purity) = JsNum(p)
                        THEN ToNumber(body.purity).v ELSE RatInt(24)]_vars

\* the registry holds a gram/JOD/21 subscription whose thresholds arrived as text
C15_Witness ==
  /\ event.op = "monitor"
  /\ Len(subscriptions) = 1
  /\ subscriptions[1].unit = "gram"
  /\ subscriptions[1].currency = "JOD"
  /\ subscriptions[1].purity = RatInt(21)
  /\ subscriptions[1].lower_threshold = RatInt(38)
  /\ subscriptions[1].upper_threshold = RatInt(42)

====
